---- MODULE Spec2Model ----
(***************************************************************************)
(* Model of nsxt/resource_nsxt_license.go: the five entry points of the    *)
(* resource (Create, Read, Update, Delete, Import) acting on one           *)
(* schema.ResourceData `d`, against a remote API whose answers are chosen  *)
(* nondeterministically.                                                   *)
(*                                                                         *)
(* Strings that the code splits or tests for emptiness (the ID and the     *)
(* "logical_router_id" field) are sequences of one-character strings.      *)
(* The host calls one entry point at a time; `last` records the inputs and *)
(* the result of the latest call, with the remote calls it issued.         *)
(***************************************************************************)
EXTENDS Integers, Sequences, FiniteSets, TLC

\* ------------------------------------------------------------------ bounds
MaxLen == 4            \* longest import key the host passes to Import
MaxRevision == 1       \* largest revision the remote reports

\* ------------------------------------------------------- program constants
StatusOK == 200
StatusNotFound == 404

\* --------------------------------------------------------------- strings
Chars == {"a", "/"}
Slash == "/"
Empty == <<>>

RECURSIVE StrsOfLen(_)
StrsOfLen(n) ==
    IF n = 0 THEN {Empty}
    ELSE {Append(s, c) : s \in StrsOfLen(n - 1), c \in Chars}

Strs == UNION {StrsOfLen(n) : n \in 0..MaxLen}

\* index of the first separator of s, 0 when there is none
RECURSIVE IndexFrom(_, _)
IndexFrom(s, i) ==
    IF i > Len(s) THEN 0
    ELSE IF s[i] = Slash THEN i
    ELSE IndexFrom(s, i + 1)

\* strings.Split(s, "/"): every substring between separators, in order
RECURSIVE Split(_)
Split(s) ==
    LET i == IndexFrom(s, 1)
    IN  IF i = 0 THEN <<s>>
        ELSE <<SubSeq(s, 1, i - 1)>> \o Split(SubSeq(s, i + 1, Len(s)))

\* ------------------------------------------------------------ remote side
\* identifiers the remote assigns to a created object
ServerIds == {<<"a">>, <<"a", "a">>}
\* router identifiers the remote reports in a fetched object
RouterIds == {<<"a">>, <<"a", "a">>}
\* router identifiers of the configuration the host starts with
ConfigRouterIds == {Empty, <<"a">>}

\* (resp, err) of one remote call.  resp may be nil only with an error.
Outcomes ==
    {[hasResp |-> TRUE, StatusCode |-> c, err |-> e] :
        c \in {StatusOK, StatusNotFound, 500}, e \in BOOLEAN}
    \cup {[hasResp |-> FALSE, StatusCode |-> 0, err |-> TRUE]}

\* the results of a call whose results the code drops
Discarded == [hasResp |-> FALSE, StatusCode |-> 0, err |-> FALSE]

\* manager.StaticRoute values the remote returns from a fetch
StaticRoutes ==
    {[Revision |-> v, Description |-> "desc", DisplayName |-> "name",
      Tags |-> <<"tag">>, LogicalRouterId |-> r, Network |-> "net",
      NextHops |-> <<"hop">>] : v \in 0..MaxRevision, r \in RouterIds}

\* -------------------------------------------------------------- ResourceData
\* the fields of a ResourceData nothing has been set on
ZeroFields ==
    [revision |-> 0, description |-> "", display_name |-> "",
     tags |-> <<>>, logical_router_id |-> Empty, network |-> "",
     next_hops |-> <<>>]

NewResourceData(id) == [id |-> id, fields |-> ZeroFields]

SetId(d0, id) == [d0 EXCEPT !.id = id]
Set(d0, key, value) == [d0 EXCEPT !.fields[key] = value]

\* -------------------------------------------------------------------- errors
Nil == "nil"
ErrNotSupported == "resourceNotSupportedError"
ErrNoObjectId == "Error obtaining logical object id"
ErrNoRouterIdRead == "Error obtaining logical router id during static route read"
ErrNoRouterIdUpdate == "Error obtaining logical router id during static route update"
ErrNoRouterIdDelete == "Error obtaining logical router id during static route deletion"
ErrCreate == "Error during StaticRoute create"
ErrCreateStatus == "Unexpected status returned during StaticRoute create"
ErrRead == "Error during StaticRoute read"
ErrSetInSchema == "Error during StaticRoute set in schema"
ErrUpdate == "Error during StaticRoute update"
ErrDelete == "Error during StaticRoute delete"
ErrImport == "Please provide <router-id>/<static-route-id> as an input"

\* one remote call: the API method, its arguments, what it answered
Call(api, args, out) == [api |-> api, args |-> args, out |-> out]

\* what a handler leaves behind: the ResourceData, the error, the calls issued
Ret(d1, err, calls) == [d |-> d1, err |-> err, calls |-> calls]

\* ------------------------------------------------------------------ handlers
\* A handler is given the ResourceData and the client handle (TRUE when
\* m.NsxtClient is not nil).  Whatever the remote may answer to the calls it
\* issues, it ends in one of the results of the set defined here.

\* lines 147-158: the fetched object is copied into the schema
SetFromStaticRoute(d0, staticRoute, hopsErr) ==
    LET d1 == Set(d0, "revision", staticRoute.Revision)
        d2 == Set(d1, "description", staticRoute.Description)
        d3 == Set(d2, "display_name", staticRoute.DisplayName)
        d4 == Set(d3, "tags", staticRoute.Tags)
        d5 == Set(d4, "logical_router_id", staticRoute.LogicalRouterId)
        d6 == Set(d5, "network", staticRoute.Network)
    IN  IF hopsErr THEN Ret(d6, ErrSetInSchema, <<>>)
        ELSE Ret(Set(d6, "next_hops", staticRoute.NextHops), Nil, <<>>)

Read_ErrBeforeNotFound(d0, nsxClient) ==
    IF ~nsxClient THEN {Ret(d0, ErrNotSupported, <<>>)}
    ELSE IF d0.id = Empty THEN {Ret(d0, ErrNoObjectId, <<>>)}
    ELSE IF d0.fields.logical_router_id = Empty
         THEN {Ret(d0, ErrNoRouterIdRead, <<>>)}
    ELSE UNION {
        LET call == Call("ReadStaticRoute",
                         <<d0.fields.logical_router_id, d0.id>>, out)
        IN  IF out.err THEN {Ret(d0, ErrRead, <<call>>)}
            ELSE IF out.hasResp /\ out.StatusCode = StatusNotFound
            THEN {Ret(SetId(d0, Empty), Nil, <<call>>)}
            ELSE {Ret(r.d, r.err, <<call>>) :
                      r \in {SetFromStaticRoute(d0, staticRoute, hopsErr) :
                                 staticRoute \in StaticRoutes,
                                 hopsErr \in BOOLEAN}}
        : out \in Outcomes}

Read_ClearsIdOnError(d0, nsxClient) ==
    IF ~nsxClient THEN {Ret(d0, ErrNotSupported, <<>>)}
    ELSE IF d0.id = Empty THEN {Ret(d0, ErrNoObjectId, <<>>)}
    ELSE IF d0.fields.logical_router_id = Empty
         THEN {Ret(d0, ErrNoRouterIdRead, <<>>)}
    ELSE UNION {
        LET call == Call("ReadStaticRoute",
                         <<d0.fields.logical_router_id, d0.id>>, out)
        IN  IF out.hasResp /\ out.StatusCode = StatusNotFound
            THEN {Ret(SetId(d0, Empty), Nil, <<call>>)}
            ELSE IF out.err THEN {Ret(SetId(d0, Empty), ErrRead, <<call>>)}
            ELSE {Ret(r.d, r.err, <<call>>) :
                      r \in {SetFromStaticRoute(d0, staticRoute, hopsErr) :
                                 staticRoute \in StaticRoutes,
                                 hopsErr \in BOOLEAN}}
        : out \in Outcomes}

resourceNsxtLicenseRead(d0, nsxClient) ==
    IF ~nsxClient THEN {Ret(d0, ErrNotSupported, <<>>)}
    ELSE IF d0.id = Empty THEN {Ret(d0, ErrNoObjectId, <<>>)}
    ELSE IF d0.fields.logical_router_id = Empty
         THEN {Ret(d0, ErrNoRouterIdRead, <<>>)}
    ELSE UNION {
        LET call == Call("ReadStaticRoute",
                         <<d0.fields.logical_router_id, d0.id>>, out)
        IN  IF out.hasResp /\ out.StatusCode = StatusNotFound
            THEN {Ret(SetId(d0, Empty), Nil, <<call>>)}
            ELSE IF out.err THEN {Ret(d0, ErrRead, <<call>>)}
            ELSE {Ret(r.d, r.err, <<call>>) :
                      r \in {SetFromStaticRoute(d0, staticRoute, hopsErr) :
                                 staticRoute \in StaticRoutes,
                                 hopsErr \in BOOLEAN}}
        : out \in Outcomes}

\* what Create leaves behind: as Ret, with the value of staticRoute.Id
CreateRet(r, calls, newId) ==
    [d |-> r.d, err |-> r.err, calls |-> calls \o r.calls, newId |-> newId]

\* Create issues the call of line 104, whose results it tests, and the call
\* of line 107, whose results it drops; line 116 stores staticRoute.Id, a
\* value the remote chooses (newId).
resourceNsxtLicenseCreate(d0, nsxClient) ==
    IF ~nsxClient THEN {CreateRet(Ret(d0, ErrNotSupported, <<>>), <<>>, Empty)}
    ELSE UNION {
        LET calls == <<Call("CreateLicense", <<>>, out),
                       Call("AddStaticRoute", <<>>, Discarded)>>
        IN  IF out.err
            THEN {CreateRet(Ret(d0, ErrCreate, <<>>), calls, Empty)}
            ELSE IF out.StatusCode # StatusOK
            THEN {CreateRet(Ret(d0, ErrCreateStatus, <<>>), calls, Empty)}
            ELSE UNION {
                {CreateRet(r, calls, newId) :
                    r \in resourceNsxtLicenseRead(SetId(d0, newId), nsxClient)}
                : newId \in ServerIds}
        : out \in Outcomes}

Update_IgnoresNotFound(d0, nsxClient) ==
    IF ~nsxClient THEN {Ret(d0, ErrNotSupported, <<>>)}
    ELSE IF d0.id = Empty THEN {Ret(d0, ErrNoObjectId, <<>>)}
    ELSE IF d0.fields.logical_router_id = Empty
         THEN {Ret(d0, ErrNoRouterIdUpdate, <<>>)}
    ELSE UNION {
        LET call == Call("UpdateStaticRoute",
                         <<d0.fields.logical_router_id, d0.id>>, out)
        IN  IF out.err
            THEN {Ret(d0, ErrUpdate, <<call>>)}
            ELSE {Ret(r.d, r.err, <<call>> \o r.calls) :
                      r \in resourceNsxtLicenseRead(d0, nsxClient)}
        : out \in Outcomes}

Update_RouterIdFirst(d0, nsxClient) ==
    IF ~nsxClient THEN {Ret(d0, ErrNotSupported, <<>>)}
    ELSE IF d0.fields.logical_router_id = Empty
         THEN {Ret(d0, ErrNoRouterIdUpdate, <<>>)}
    ELSE IF d0.id = Empty THEN {Ret(d0, ErrNoObjectId, <<>>)}
    ELSE UNION {
        LET call == Call("UpdateStaticRoute",
                         <<d0.fields.logical_router_id, d0.id>>, out)
        IN  IF out.err \/ out.StatusCode = StatusNotFound
            THEN {Ret(d0, ErrUpdate, <<call>>)}
            ELSE {Ret(r.d, r.err, <<call>> \o r.calls) :
                      r \in resourceNsxtLicenseRead(d0, nsxClient)}
        : out \in Outcomes}

resourceNsxtLicenseUpdate(d0, nsxClient) ==
    IF ~nsxClient THEN {Ret(d0, ErrNotSupported, <<>>)}
    ELSE IF d0.id = Empty THEN {Ret(d0, ErrNoObjectId, <<>>)}
    ELSE IF d0.fields.logical_router_id = Empty
         THEN {Ret(d0, ErrNoRouterIdUpdate, <<>>)}
    ELSE UNION {
        LET call == Call("UpdateStaticRoute",
                         <<d0.fields.logical_router_id, d0.id>>, out)
        IN  IF out.err \/ out.StatusCode = StatusNotFound
            THEN {Ret(d0, ErrUpdate, <<call>>)}
            ELSE {Ret(r.d, r.err, <<call>> \o r.calls) :
                      r \in resourceNsxtLicenseRead(d0, nsxClient)}
        : out \in Outcomes}

Delete_IdBeforeClient(d0, nsxClient) ==
    IF d0.id = Empty THEN {Ret(d0, ErrNoObjectId, <<>>)}
    ELSE IF ~nsxClient THEN {Ret(d0, ErrNotSupported, <<>>)}
    ELSE IF d0.fields.logical_router_id = Empty
         THEN {Ret(d0, ErrNoRouterIdDelete, <<>>)}
    ELSE UNION {
        LET call == Call("DeleteStaticRoute",
                         <<d0.fields.logical_router_id, d0.id>>, out)
        IN  IF out.err THEN {Ret(d0, ErrDelete, <<call>>)}
            ELSE IF out.StatusCode = StatusNotFound
                 THEN {Ret(SetId(d0, Empty), Nil, <<call>>)}
            ELSE {Ret(d0, Nil, <<call>>)}
        : out \in Outcomes}

Delete_AlwaysClearsId(d0, nsxClient) ==
    IF ~nsxClient THEN {Ret(d0, ErrNotSupported, <<>>)}
    ELSE IF d0.id = Empty THEN {Ret(d0, ErrNoObjectId, <<>>)}
    ELSE IF d0.fields.logical_router_id = Empty
         THEN {Ret(d0, ErrNoRouterIdDelete, <<>>)}
    ELSE UNION {
        LET call == Call("DeleteStaticRoute",
                         <<d0.fields.logical_router_id, d0.id>>, out)
        IN  IF out.err THEN {Ret(d0, ErrDelete, <<call>>)}
            ELSE {Ret(SetId(d0, Empty), Nil, <<call>>)}
        : out \in Outcomes}

resourceNsxtLicenseDelete(d0, nsxClient) ==
    IF ~nsxClient THEN {Ret(d0, ErrNotSupported, <<>>)}
    ELSE IF d0.id = Empty THEN {Ret(d0, ErrNoObjectId, <<>>)}
    ELSE IF d0.fields.logical_router_id = Empty
         THEN {Ret(d0, ErrNoRouterIdDelete, <<>>)}
    ELSE UNION {
        LET call == Call("DeleteStaticRoute",
                         <<d0.fields.logical_router_id, d0.id>>, out)
        IN  IF out.err THEN {Ret(d0, ErrDelete, <<call>>)}
            ELSE IF out.StatusCode = StatusNotFound
                 THEN {Ret(SetId(d0, Empty), Nil, <<call>>)}
            ELSE {Ret(d0, Nil, <<call>>)}
        : out \in Outcomes}

\* Import returns ([]*ResourceData, error); `returned` is the slice
ImportRet(d1, err, returned) ==
    [d |-> d1, err |-> err, calls |-> <<>>, returned |-> returned]

Import_SwapsComponents(d0, nsxClient) ==
    LET s == Split(d0.id)
    IN  IF Len(s) # 2 THEN ImportRet(d0, ErrImport, <<>>)
        ELSE LET d1 == Set(SetId(d0, s[1]), "logical_router_id", s[2])
             IN  ImportRet(d1, Nil, <<d1>>)

resourceNsxtLicenseImport(d0, nsxClient) ==
    LET importID == d0.id
        s == Split(importID)
    IN  IF Len(s) # 2 THEN ImportRet(d0, ErrImport, <<>>)
        ELSE LET d1 == Set(SetId(d0, s[2]), "logical_router_id", s[1])
             IN  ImportRet(d1, Nil, <<d1>>)

\* --------------------------------------------------------------------- state
\* d: the ResourceData the host holds for the resource instance
\* last: the latest call: operation, inputs, result, remote calls issued
VARIABLES d, last

vars == <<d, last>>

Ops == {"Create", "Read", "Update", "Delete", "Import"}

Record(op, nsxClient, before, newId, r, returned) ==
    [op |-> op, nsxClient |-> nsxClient, before |-> before, newId |-> newId,
     err |-> r.err, calls |-> r.calls, returned |-> returned]

Init ==
    /\ \E r \in ConfigRouterIds :
           d = Set(NewResourceData(Empty), "logical_router_id", r)
    /\ last = [op |-> "none", nsxClient |-> TRUE, before |-> d,
               newId |-> Empty, err |-> Nil, calls |-> <<>>,
               returned |-> <<>>]

Create ==
    \E nsxClient \in BOOLEAN :
        \E r \in resourceNsxtLicenseCreate(d, nsxClient) :
            /\ d' = r.d
            /\ last' = Record("Create", nsxClient, d, r.newId, r, <<>>)

Read ==
    \E nsxClient \in BOOLEAN :
        \E r \in resourceNsxtLicenseRead(d, nsxClient) :
            /\ d' = r.d
            /\ last' = Record("Read", nsxClient, d, Empty, r, <<>>)

Update ==
    \E nsxClient \in BOOLEAN :
        \E r \in resourceNsxtLicenseUpdate(d, nsxClient) :
            /\ d' = r.d
            /\ last' = Record("Update", nsxClient, d, Empty, r, <<>>)

Delete ==
    \E nsxClient \in BOOLEAN :
        \E r \in resourceNsxtLicenseDelete(d, nsxClient) :
            /\ d' = r.d
            /\ last' = Record("Delete", nsxClient, d, Empty, r, <<>>)

\* the host hands Import a new ResourceData whose ID is the import key
Import ==
    \E nsxClient \in BOOLEAN, importID \in Strs :
        LET d0 == NewResourceData(importID)
            r == resourceNsxtLicenseImport(d0, nsxClient)
        IN  /\ d' = r.d
            /\ last' = Record("Import", nsxClient, d0, Empty, r, r.returned)

Next == Create \/ Read \/ Update \/ Delete \/ Import

Spec == Init /\ [][Next]_vars

\* ------------------------------------------------------- vocabulary of claims
NotFound(c) == c.out.hasResp /\ c.out.StatusCode = StatusNotFound

\* the latest call had a client, a non-empty ID and a non-empty router ID
PassedChecks ==
    /\ last.nsxClient
    /\ last.before.id # Empty
    /\ last.before.fields.logical_router_id # Empty

\* the first remote call of the latest Create or Update went through
MutatingCallSucceeded ==
    /\ Len(last.calls) >= 1
    /\ ~last.calls[1].out.err
    /\ IF last.op = "Create" THEN last.calls[1].out.StatusCode = StatusOK
       ELSE ~NotFound(last.calls[1])

SlashCount(k) == Cardinality({i \in 1..Len(k) : k[i] = Slash})

\* "<parentId>/<objectId>": one slash, something on either side of it
WellFormedKey(k) ==
    /\ SlashCount(k) = 1
    /\ k[1] # Slash
    /\ k[Len(k)] # Slash

ParentOf(k) == SubSeq(k, 1, (CHOOSE i \in 1..Len(k) : k[i] = Slash) - 1)
ObjectOf(k) == SubSeq(k, (CHOOSE i \in 1..Len(k) : k[i] = Slash) + 1, Len(k))

\* ------------------------------------------------------------------------ C1
\* C1: a Delete that passes its checks and whose remote call answers 404
\* clears the ID and returns no error, with or without an error value beside
\* the 404; Delete fails only on an error that is not a 404.
C1_DeleteNotFoundSucceeds ==
    (last.op = "Delete" /\ Len(last.calls) = 1) =>
        /\ NotFound(last.calls[1]) => (last.err = Nil /\ d.id = Empty)
        /\ last.err # Nil => (last.calls[1].out.err /\ ~NotFound(last.calls[1]))

\* ------------------------------------------------------------------------ C2
\* C2 as stated: every call that returns an error leaves the ID as it was.
C2_FailureKeepsId ==
    last.err # Nil => d.id = last.before.id

\* C2 amended: a call that returns an error leaves the ID as it was, unless it
\* is a Create whose mutating call succeeded: then the ID is the one the
\* remote assigned.  The ID of an instance goes from non-empty to empty only
\* on a call that returns no error and whose last remote call answered 404.
C2_FailureKeepsIdUnlessCreated ==
    /\ last.err # Nil =>
           IF last.op = "Create" /\ MutatingCallSucceeded
           THEN d.id = last.newId
           ELSE d.id = last.before.id
    /\ (last.op \in {"Create", "Read", "Update", "Delete"}
            /\ d.id = Empty /\ last.before.id # Empty) =>
           /\ last.err = Nil
           /\ last.calls # <<>>
           /\ NotFound(last.calls[Len(last.calls)])

C2_Witness ==
    /\ last.op = "Update"
    /\ Len(last.calls) = 2
    /\ last.err = ErrRead
    /\ d.id = last.before.id

\* ------------------------------------------------------------------------ C3
\* C3: Import rejects every key that is not two non-empty components around
\* one slash, and returns no instance for it.
C3_MalformedKeyRejected ==
    (last.op = "Import" /\ ~WellFormedKey(last.before.id)) =>
        (last.err = ErrImport /\ last.returned = <<>>)

C5_ReadNotFoundClearsId ==
    (last.op = "Read" /\ Len(last.calls) = 1 /\ NotFound(last.calls[1])) =>
        /\ last.err = Nil
        /\ d.id = Empty
        /\ d.fields = last.before.fields

C5_Witness ==
    /\ last.op = "Read"
    /\ Len(last.calls) = 1
    /\ NotFound(last.calls[1])
    /\ last.calls[1].out.err
    /\ last.before.id # Empty
    /\ d.id = Empty

\* ------------------------------------------------------------------------ C6
\* C6: an Update whose update call answers 404 returns an error, leaves the
\* instance as it was and performs no follow-up Read.
C6_UpdateNotFoundFails ==
    (last.op = "Update" /\ Len(last.calls) >= 1 /\ NotFound(last.calls[1])) =>
        /\ last.err = ErrUpdate
        /\ d = last.before
        /\ Len(last.calls) = 1

C6_Witness ==
    /\ last.op = "Update"
    /\ Len(last.calls) = 1
    /\ NotFound(last.calls[1])
    /\ ~last.calls[1].out.err
    /\ last.err = ErrUpdate

\* ------------------------------------------------------------------------ C7
\* C7 as stated: a Create or Update that returns no error leaves the ID
\* non-empty, a Delete that returns no error leaves it empty; the ID becomes
\* non-empty only by such a Create and empty only by such a Delete or by a
\* Read that finds 404.
C7_Lifecycle ==
    /\ (last.op \in {"Create", "Update"} /\ last.err = Nil) => d.id # Empty
    /\ (last.op = "Delete" /\ last.err = Nil) => d.id = Empty
    /\ (last.op \in {"Create", "Read", "Update", "Delete"}
            /\ last.before.id = Empty /\ d.id # Empty) =>
           (last.op = "Create" /\ last.err = Nil)
    /\ (last.op \in {"Create", "Read", "Update", "Delete"}
            /\ last.before.id # Empty /\ d.id = Empty) =>
           \/ last.op = "Delete" /\ last.err = Nil
           \/ last.op = "Read" /\ NotFound(last.calls[1])

\* C7 amended: a Create or Update that returns no error leaves the ID
\* non-empty unless its follow-up Read found 404, which leaves it empty; a
\* Delete that returns no error leaves the ID empty when the remote answered
\* 404 and unchanged otherwise; a Read changes the ID only to empty and only
\* on 404; an empty ID becomes non-empty only by a Create whose mutating call
\* succeeded.
C7_LifecycleWithFollowUpRead ==
    /\ (last.op \in {"Create", "Update"} /\ last.err = Nil) =>
           /\ last.calls # <<>>
           /\ IF NotFound(last.calls[Len(last.calls)]) THEN d.id = Empty
              ELSE IF last.op = "Create" THEN d.id = last.newId /\ d.id # Empty
              ELSE d.id = last.before.id /\ d.id # Empty
    /\ (last.op = "Delete" /\ last.err = Nil) =>
           IF NotFound(last.calls[1]) THEN d.id = Empty
           ELSE d.id = last.before.id /\ d.id # Empty
    /\ (last.op = "Read" /\ d.id # last.before.id) =>
           (d.id = Empty /\ last.err = Nil /\ NotFound(last.calls[1]))
    /\ (last.op \in {"Create", "Read", "Update", "Delete"}
            /\ last.before.id = Empty /\ d.id # Empty) =>
           (last.op = "Create" /\ MutatingCallSucceeded)

C7_Witness ==
    /\ last.op = "Delete"
    /\ last.err = Nil
    /\ Len(last.calls) = 1
    /\ ~NotFound(last.calls[1])
    /\ d.id # Empty

\* ------------------------------------------------------------------------ C8
\* C8: a Read or Delete that passes its checks issues one remote call; a
\* Create or Update whose mutating call succeeds issues two, the mutating
\* call and then the fetch; a failed mutating call is followed by no fetch;
\* Import issues none; no call issues more than two.
C8_CallCountAndOrder ==
    /\ (last.op \in {"Read", "Delete"} /\ PassedChecks) => Len(last.calls) = 1
    /\ (last.op \in {"Create", "Update"} /\ MutatingCallSucceeded) =>
           /\ Len(last.calls) = 2
           /\ last.calls[1].api \in {"CreateLicense", "UpdateStaticRoute"}
           /\ last.calls[2].api = "ReadStaticRoute"
    /\ (last.op \in {"Create", "Update"} /\ last.calls # <<>>
            /\ ~MutatingCallSucceeded) =>
           \A i \in 1..Len(last.calls) : last.calls[i].api # "ReadStaticRoute"
    /\ last.op = "Import" => last.calls = <<>>
    /\ Len(last.calls) <= 2

\* ------------------------------------------------------------------------ C9
\* C9: Read, Update and Delete, called with a client on an instance whose ID
\* or router ID is empty, fail with an error that tells which one is missing,
\* issue no remote call and leave the instance as it was; the ID is checked
\* first.
RouterIdError(op) ==
    IF op = "Read" THEN ErrNoRouterIdRead
    ELSE IF op = "Update" THEN ErrNoRouterIdUpdate
    ELSE ErrNoRouterIdDelete

C9_MissingIdentifier ==
    (last.op \in {"Read", "Update", "Delete"} /\ last.nsxClient) =>
        /\ last.before.id = Empty =>
               (last.err = ErrNoObjectId /\ last.calls = <<>> /\ d = last.before)
        /\ (last.before.id # Empty
                /\ last.before.fields.logical_router_id = Empty) =>
               /\ last.err = RouterIdError(last.op)
               /\ last.err # ErrNoObjectId
               /\ last.calls = <<>>
               /\ d = last.before

C9_Witness ==
    /\ last.op = "Update"
    /\ last.nsxClient
    /\ last.before.id = Empty
    /\ last.before.fields.logical_router_id = Empty
    /\ last.err = ErrNoObjectId

\* ----------------------------------------------------------------------- C10
\* C10: Import of a well-formed key returns one instance, whose ID is the
\* second component and whose router ID is the first, sets no other field and
\* issues no remote call; a Read called next with a client issues one fetch
\* with that router ID and that ID.
ImportedWellFormed ==
    /\ last.op = "Import"
    /\ WellFormedKey(last.before.id)

ImportResult ==
    ImportedWellFormed =>
        /\ last.err = Nil
        /\ last.returned = <<d>>
        /\ d.id = ObjectOf(last.before.id)
        /\ d.fields = [ZeroFields EXCEPT
                          !.logical_router_id = ParentOf(last.before.id)]
        /\ last.calls = <<>>

ReadAfterImport ==
    (ImportedWellFormed /\ last'.op = "Read" /\ last'.nsxClient) =>
        /\ Len(last'.calls) = 1
        /\ last'.calls[1].api = "ReadStaticRoute"
        /\ last'.calls[1].args =
               <<ParentOf(last.before.id), ObjectOf(last.before.id)>>

C10_ImportSeedsIdentifiers == [][ImportResult' /\ ReadAfterImport]_vars

C10_Witness ==
    /\ ImportedWellFormed
    /\ d.id # d.fields.logical_router_id
    /\ d.id # Empty
    /\ d.fields.logical_router_id # Empty

====
